---- MODULE Spec2Model ----
(***************************************************************************)
(* Model of src/main.py: the cloud function trigger_dag, its dedup table   *)
(* pubsub_history (class PubSubHistory), the existence pre-check           *)
(* message_id_exists, the table lock LOCK TABLE ... ACCESS EXCLUSIVE       *)
(* NOWAIT, and the downstream call make_iap_request.                       *)
(*                                                                         *)
(* Every invocation of trigger_dag is one process.  Its steps are the      *)
(* database and network round trips of the function, in program order;     *)
(* the code between two round trips is local and belongs to the step that  *)
(* precedes it.  The database is PostgreSQL: a SELECT takes ACCESS SHARE   *)
(* on the table until its transaction ends, ACCESS EXCLUSIVE conflicts     *)
(* with every other lock, and NOWAIT fails (pgcode 55P03) instead of       *)
(* waiting.                                                                *)
(***************************************************************************)
EXTENDS Integers, Sequences, FiniteSets, TLC

\* Number of invocations of trigger_dag in a behaviour.
MaxInv == 2
\* Number of distinct Pub/Sub message identifiers.
MaxMsg == 2

Inv == 1..MaxInv
MsgIds == 1..MaxMsg

VARIABLES
    ENABLED_ENV,  \* os.environ.get('ENABLED')
    pc,           \* position of each invocation in trigger_dag
    request,      \* the request body each invocation was called with
    count_gt0,    \* message_id_exists' local result (message_id_count > 0)
    table,        \* committed rows of pubsub_history, in insertion order
    xlock,        \* the invocation holding ACCESS EXCLUSIVE on the table, or 0
    slock,        \* the invocations holding ACCESS SHARE on the table
    result,       \* what each finished invocation returned or raised
    posts,        \* the HTTP requests make_iap_request has sent, with their answers
    issued,       \* how many identity tokens the token endpoint has issued
    token,        \* per invocation: the identity token it fetched, or NoToken
    iap,          \* per invocation: what make_iap_request returned or raised
    ops,          \* per invocation: how many of each round trip it has made
    before,       \* per invocation: the invocations finished when it started
    overlap,      \* per invocation: the invocations it ran concurrently with
    seenAtStart   \* per invocation: a row for its message existed at start

vars == <<ENABLED_ENV, pc, request, count_gt0, table, xlock, slock, result,
          posts, issued, token, iap, ops, before, overlap, seenAtStart>>

----------------------------------------------------------------------------
(* Configuration and request bodies *)

\* Values of the ENABLED environment variable; "unset" is os.environ.get
\* returning None.
EnabledValues == {"false", "False", "true", "unset"}

\* str.lower() on the values above.
Lower(s) == IF s = "False" THEN "false" ELSE s

DisabledInverted(e) == Lower(e) = "true"
\* os.environ.get('ENABLED').lower() == "false"
Disabled(e) == Lower(e) = "false"

\* Attribute mappings of a message.  NoAttributes is the empty mapping, which
\* is also the default of request_json['message'].get('attributes', {}).
Matching == [data_type |-> "sales_data", process |-> "cleaning", status |-> "completed"]
NotCompleted == [data_type |-> "sales_data", process |-> "cleaning", status |-> "failed"]
NoAttributes == [k \in {} |-> "None"]
AttrSamples == {Matching, NotCompleted, NoAttributes}

\* dict.get(key): the value, or None when the key is absent.
Get(attributes, key) == IF key \in DOMAIN attributes THEN attributes[key] ELSE "None"

PredicateAnyKey(attributes) ==
    \/ Get(attributes, "data_type") = "sales_data"
    \/ Get(attributes, "process") = "cleaning"
    \/ Get(attributes, "status") = "completed"
\* The attribute filter of trigger_dag.
Predicate(attributes) ==
    /\ Get(attributes, "data_type") = "sales_data"
    /\ Get(attributes, "process") = "cleaning"
    /\ Get(attributes, "status") = "completed"

\* Request bodies.  kind "nojson": get_json(silent=True) is None or empty ({});
\* "nomessage": a non-empty JSON object without 'message'; "nomsgid": a
\* 'message' object without 'messageId'; "ok": message with messageId.
BadBodies ==
    { [kind |-> k, messageId |-> 0, attributes |-> NoAttributes] :
        k \in {"nojson", "nomessage", "nomsgid"} }
GoodBodies ==
    { [kind |-> "ok", messageId |-> m, attributes |-> a] :
        m \in MsgIds, a \in AttrSamples }
Bodies == BadBodies \cup GoodBodies
NoRequest == [kind |-> "none", messageId |-> 0, attributes |-> NoAttributes]

\* Lines 266-274: `if request_json and 'message' in request_json` guards the
\* read of request_json['message']['messageId'], which raises KeyError when
\* the key is missing.
Parse(body) ==
    IF body.kind \in {"nojson", "nomessage"} THEN "Malformed500"
    ELSE IF body.kind = "nomsgid" THEN "KeyError"
    ELSE "parsed"

----------------------------------------------------------------------------
(* The dedup table *)

RECURSIVE CountRows(_, _)
\* SELECT count(*) FROM pubsub_history WHERE message_id = m
CountRows(rows, m) ==
    IF rows = << >> THEN 0
    ELSE (IF Head(rows).message_id = m THEN 1 ELSE 0) + CountRows(Tail(rows), m)

message_id_exists_OffByOne(rows, m) == CountRows(rows, m) > 1
\* message_id_exists: True if message_id_count > 0 else False
message_id_exists(rows, m) == CountRows(rows, m) > 0

InsertRowNotAdded(rows, m) == rows
InsertRowOverwritesLast(rows, m) ==
    IF rows = << >> THEN <<[id |-> 1, message_id |-> m]>>
    ELSE [rows EXCEPT ![Len(rows)] = [id |-> Len(rows), message_id |-> m]]
\* session.add(PubSubHistory(message_id=m)); session.commit(): id is the
\* autoincrement primary key.
InsertRow(rows, m) == Append(rows, [id |-> Len(rows) + 1, message_id |-> m])

LockSurvivesCommit(i, xl) == xl
\* session.commit() (line 306) ends the transaction, and the table lock is
\* held until the end of the transaction that took it.
LockAfterCommit(i, xl) == IF xl = i THEN 0 ELSE xl

LockGrantedAlways(i, xl, sl) == TRUE
\* LOCK TABLE pubsub_history IN ACCESS EXCLUSIVE MODE NOWAIT is granted only
\* when no other transaction holds any lock on the table.
LockGranted(i, xl, sl) == xl = 0 /\ sl \ {i} = {}

\* PostgreSQL error codes LOCK TABLE can fail with: lock_not_available, and
\* as samples of the others connection_failure and query_canceled.
LockNotAvailable == "55P03"
OtherPgCodes == {"08006", "57014"}

LockFailureMasked(pgcode) == "AlreadyProcessed200"
\* The handler of lines 292-302: lock_not_available rolls back and answers
\* "already been processed"; any other OperationalError is re-raised.
LockFailureOutcome(pgcode) ==
    IF pgcode = "55P03" THEN "AlreadyProcessed200" ELSE "OperationalError"

\* A SELECT on the table waits while another transaction holds ACCESS EXCLUSIVE.
SelectCanRun(i, xl) == xl = 0 \/ xl = i

----------------------------------------------------------------------------
(* The downstream call *)

\* HTTP statuses the protected application answers with.
Statuses == {200, 204, 403, 500}
\* Headers and bodies of its answers.
HeaderSamples == {"content-type: text/html"}
TextSamples == {"body-a", "body-b"}
\* requests.Response, as far as make_iap_request reads it.  The body is
\* varied for status 200, the one status whose body is returned.
Responses ==
    { r \in [status_code : Statuses, headers : HeaderSamples, text : TextSamples] :
        r.status_code = 200 \/ r.text = "body-a" }
\* The status recorded for a request that got no answer.
NoStatus == 0

ClassifyForbiddenAsSuccess(status) ==
    IF status = 403 THEN "ReturnedNone"
    ELSE IF status # 200 THEN "BadResponse"
    ELSE "ReturnedNone"
\* make_iap_request lines 155-163, as seen by trigger_dag: 403 raises the
\* permission error, any other status but 200 raises the bad-response error,
\* 200 returns resp.text, which trigger_dag drops (it returns None).
Classify(status) ==
    IF status = 403 THEN "Forbidden"
    ELSE IF status # 200 THEN "BadResponse"
    ELSE "ReturnedNone"

\* No identity token fetched.
NoToken == 0

BearerTokenCached(i, fetched) ==
    LET held == {fetched[j] : j \in DOMAIN fetched} \ {NoToken}
    IN  IF held = {} THEN NoToken
        ELSE CHOOSE t \in held : \A u \in held : t <= u
\* headers={'Authorization': f'Bearer {google_open_id_connect_token}'}: the
\* token fetched at lines 140-142 of the same call.
BearerToken(i, fetched) == fetched[i]

\* No call of make_iap_request has ended.
NoOutcome == [kind |-> "none", status_code |-> NoStatus, headers |-> "", text |-> ""]

make_iap_request_AcceptsBelow400(resp) ==
    IF resp.status_code = 403
    THEN [kind |-> "Forbidden", status_code |-> NoStatus, headers |-> "", text |-> ""]
    ELSE IF resp.status_code >= 400
    THEN [kind |-> "BadResponse", status_code |-> resp.status_code,
          headers |-> resp.headers, text |-> resp.text]
    ELSE [kind |-> "return", status_code |-> NoStatus, headers |-> "", text |-> resp.text]
\* make_iap_request lines 155-163: what the call returns (resp.text) or the
\* exception it raises; the bad-response exception is formatted from
\* resp.status_code, resp.headers and resp.text, the permission one is a
\* fixed message.
make_iap_request(resp) ==
    IF resp.status_code = 403
    THEN [kind |-> "Forbidden", status_code |-> NoStatus, headers |-> "", text |-> ""]
    ELSE IF resp.status_code # 200
    THEN [kind |-> "BadResponse", status_code |-> resp.status_code,
          headers |-> resp.headers, text |-> resp.text]
    ELSE [kind |-> "return", status_code |-> NoStatus, headers |-> "", text |-> resp.text]

PostBodyEmptyConf(message_id, attributes) == [conf |-> 0]
\* json={"conf": message_id}
PostBody(message_id, attributes) == [conf |-> message_id]

----------------------------------------------------------------------------
(* Bookkeeping *)

NoOps == [checks |-> 0, locks |-> 0, inserts |-> 0, resolves |-> 0,
          tokens |-> 0, requests |-> 0]

Active(i) == pc[i] \notin {"idle", "done"}
Finished(i) == pc[i] = "done"

Bump(i, field) == [ops EXCEPT ![i][field] = @ + 1]

Init ==
    /\ ENABLED_ENV \in EnabledValues
    /\ pc = [i \in Inv |-> "idle"]
    /\ request = [i \in Inv |-> NoRequest]
    /\ count_gt0 = [i \in Inv |-> FALSE]
    /\ table = << >>
    /\ xlock = 0
    /\ slock = {}
    /\ result = [i \in Inv |-> "none"]
    /\ posts = << >>
    /\ issued = 0
    /\ token = [i \in Inv |-> NoToken]
    /\ iap = [i \in Inv |-> NoOutcome]
    /\ ops = [i \in Inv |-> NoOps]
    /\ before = [i \in Inv |-> {}]
    /\ overlap = [i \in Inv |-> {}]
    /\ seenAtStart = [i \in Inv |-> FALSE]

----------------------------------------------------------------------------
(* trigger_dag, one action per round trip *)

\* What becomes of an invocation before its first round trip (lines 263-274).
Admission(e, body) ==
    IF e = "unset" THEN "AttributeError"
    ELSE IF Disabled(e) THEN "Disabled418"
    ELSE Parse(body)

\* The message identifiers delivered so far.
Delivering == {request[j].messageId : j \in {k \in Inv : request[k].kind = "ok"}}

\* The runtime calls trigger_dag(request).  Invocations are numbered in the
\* order they start, and message identifiers (opaque strings the code only
\* compares for equality) in the order of their first delivery.
Invoke(i, body) ==
    /\ pc[i] = "idle"
    /\ \A j \in Inv : j < i => pc[j] # "idle"
    /\ body.kind = "ok" => body.messageId <= Cardinality(Delivering) + 1
    /\ request' = [request EXCEPT ![i] = body]
    /\ before' = [before EXCEPT ![i] = {j \in Inv : Finished(j)}]
    /\ seenAtStart' = [seenAtStart EXCEPT ![i] =
                          body.kind = "ok" /\ CountRows(table, body.messageId) > 0]
    /\ IF Admission(ENABLED_ENV, body) = "parsed"
       THEN /\ pc' = [pc EXCEPT ![i] = "check"]
            /\ overlap' = [j \in Inv |->
                             IF j = i THEN {k \in Inv : Active(k)}
                             ELSE IF Active(j) THEN overlap[j] \cup {i}
                             ELSE overlap[j]]
            /\ UNCHANGED result
       ELSE /\ pc' = [pc EXCEPT ![i] = "done"]
            /\ result' = [result EXCEPT ![i] = Admission(ENABLED_ENV, body)]
            /\ UNCHANGED overlap
    /\ UNCHANGED <<ENABLED_ENV, issued, token, iap, count_gt0, table, xlock, slock, posts, ops>>

\* message_id_exists, the query (lines 230-236): waits for an ACCESS
\* EXCLUSIVE holder, then counts the rows under ACCESS SHARE.
CheckQuery(i) ==
    /\ pc[i] = "check"
    /\ SelectCanRun(i, xlock)
    /\ count_gt0' = [count_gt0 EXCEPT ![i] =
                        message_id_exists(table, request[i].messageId)]
    /\ slock' = slock \cup {i}
    /\ ops' = Bump(i, "checks")
    /\ pc' = [pc EXCEPT ![i] = "check_commit"]
    /\ UNCHANGED <<ENABLED_ENV, issued, token, iap, request, table, xlock, result, posts,
                   before, overlap, seenAtStart>>

\* message_id_exists, leaving session_scope (lines 218, 223, 238) and the
\* test of line 278.
CheckCommit(i) ==
    /\ pc[i] = "check_commit"
    /\ slock' = slock \ {i}
    /\ IF count_gt0[i]
       THEN /\ pc' = [pc EXCEPT ![i] = "done"]
            /\ result' = [result EXCEPT ![i] = "AlreadyProcessed200"]
       ELSE /\ pc' = [pc EXCEPT ![i] = "lock"]
            /\ UNCHANGED result
    /\ UNCHANGED <<ENABLED_ENV, issued, token, iap, request, count_gt0, table, xlock, posts, ops,
                   before, overlap, seenAtStart>>

\* The datastore fails during message_id_exists: session_scope rolls back
\* and re-raises (lines 219-223).
CheckError(i) ==
    /\ pc[i] \in {"check", "check_commit"}
    /\ slock' = slock \ {i}
    /\ pc' = [pc EXCEPT ![i] = "done"]
    /\ result' = [result EXCEPT ![i] = "OperationalError"]
    /\ UNCHANGED <<ENABLED_ENV, issued, token, iap, request, count_gt0, table, xlock, posts, ops,
                   before, overlap, seenAtStart>>

\* LOCK TABLE ... NOWAIT (lines 283-300): granted, or lock_not_available,
\* which rolls back and answers "already been processed".
LockTable(i) ==
    /\ pc[i] = "lock"
    /\ ops' = Bump(i, "locks")
    /\ IF LockGranted(i, xlock, slock)
       THEN /\ xlock' = i
            /\ pc' = [pc EXCEPT ![i] = "commit"]
            /\ UNCHANGED result
       ELSE /\ pc' = [pc EXCEPT ![i] = "done"]
            /\ result' = [result EXCEPT ![i] = LockFailureOutcome(LockNotAvailable)]
            /\ UNCHANGED xlock
    /\ UNCHANGED <<ENABLED_ENV, issued, token, iap, request, count_gt0, table, slock, posts,
                   before, overlap, seenAtStart>>

\* LOCK TABLE fails with another OperationalError: re-raised (lines 301-302).
LockError(i) ==
    /\ pc[i] = "lock"
    /\ ops' = Bump(i, "locks")
    /\ pc' = [pc EXCEPT ![i] = "done"]
    /\ \E pgcode \in OtherPgCodes :
         result' = [result EXCEPT ![i] = LockFailureOutcome(pgcode)]
    /\ UNCHANGED <<ENABLED_ENV, issued, token, iap, request, count_gt0, table, xlock, slock, posts,
                   before, overlap, seenAtStart>>

\* session.add; session.commit; session.close (lines 304-307), which ends
\* the transaction and with it the table lock, then the attribute filter
\* (lines 310-314); without a match the function falls off its end.
CommitInsert(i) ==
    /\ pc[i] = "commit"
    /\ table' = InsertRow(table, request[i].messageId)
    /\ xlock' = LockAfterCommit(i, xlock)
    /\ ops' = Bump(i, "inserts")
    /\ IF Predicate(request[i].attributes)
       THEN /\ pc' = [pc EXCEPT ![i] = "resolve"]
            /\ UNCHANGED result
       ELSE /\ pc' = [pc EXCEPT ![i] = "done"]
            /\ result' = [result EXCEPT ![i] = "ReturnedNone"]
    /\ UNCHANGED <<ENABLED_ENV, issued, token, iap, request, count_gt0, slock, posts,
                   before, overlap, seenAtStart>>

\* session.commit() raises (line 306): the transaction is aborted, no row is
\* stored and the lock is gone with the transaction.
CommitError(i) ==
    /\ pc[i] = "commit"
    /\ xlock' = 0
    /\ pc' = [pc EXCEPT ![i] = "done"]
    /\ result' = [result EXCEPT ![i] = "OperationalError"]
    /\ UNCHANGED <<ENABLED_ENV, issued, token, iap, request, count_gt0, table, slock, posts, ops,
                   before, overlap, seenAtStart>>

\* get_client_id() and get_airflow_webserver_id() (lines 315-320): network
\* calls that answer or raise.
Resolve(i, answered) ==
    /\ pc[i] = "resolve"
    /\ ops' = Bump(i, "resolves")
    /\ IF answered
       THEN /\ pc' = [pc EXCEPT ![i] = "token"]
            /\ UNCHANGED result
       ELSE /\ pc' = [pc EXCEPT ![i] = "done"]
            /\ result' = [result EXCEPT ![i] = "ResolveError"]
    /\ UNCHANGED <<ENABLED_ENV, issued, token, iap, request, count_gt0, table, xlock, slock, posts,
                   before, overlap, seenAtStart>>

\* make_iap_request: id_token.fetch_id_token (lines 140-142); every token the
\* endpoint issues is a new one.
FetchToken(i, answered) ==
    /\ pc[i] = "token"
    /\ ops' = Bump(i, "tokens")
    /\ IF answered
       THEN /\ pc' = [pc EXCEPT ![i] = "http"]
            /\ issued' = issued + 1
            /\ token' = [token EXCEPT ![i] = issued + 1]
            /\ UNCHANGED result
       ELSE /\ pc' = [pc EXCEPT ![i] = "done"]
            /\ result' = [result EXCEPT ![i] = "TokenError"]
            /\ UNCHANGED <<issued, token>>
    /\ UNCHANGED <<ENABLED_ENV, iap, request, count_gt0, table, xlock, slock, posts,
                   before, overlap, seenAtStart>>

\* make_iap_request: requests.request answered (lines 148-163).
HttpRequest(i, resp) ==
    /\ pc[i] = "http"
    /\ posts' = Append(posts, [by |-> i, status |-> resp.status_code,
                               headers |-> resp.headers, text |-> resp.text,
                               bearer |-> BearerToken(i, token),
                               json |-> PostBody(request[i].messageId,
                                                 request[i].attributes)])
    /\ ops' = Bump(i, "requests")
    /\ pc' = [pc EXCEPT ![i] = "done"]
    /\ result' = [result EXCEPT ![i] = Classify(resp.status_code)]
    /\ iap' = [iap EXCEPT ![i] = make_iap_request(resp)]
    /\ UNCHANGED <<ENABLED_ENV, issued, token, request, count_gt0, table, xlock, slock,
                   before, overlap, seenAtStart>>

\* make_iap_request: requests.request raises (timeout, connection error)
\* after the request was sent (lines 148-153).
HttpTransient(i) ==
    /\ pc[i] = "http"
    /\ posts' = Append(posts, [by |-> i, status |-> NoStatus,
                               headers |-> "", text |-> "",
                               bearer |-> BearerToken(i, token),
                               json |-> PostBody(request[i].messageId,
                                                 request[i].attributes)])
    /\ ops' = Bump(i, "requests")
    /\ pc' = [pc EXCEPT ![i] = "done"]
    /\ result' = [result EXCEPT ![i] = "Transient"]
    /\ iap' = [iap EXCEPT ![i] = [NoOutcome EXCEPT !.kind = "Transient"]]
    /\ UNCHANGED <<ENABLED_ENV, issued, token, request, count_gt0, table, xlock, slock,
                   before, overlap, seenAtStart>>

Next ==
    \/ \E i \in Inv, body \in Bodies : Invoke(i, body)
    \/ \E i \in Inv : CheckQuery(i)
    \/ \E i \in Inv : CheckCommit(i)
    \/ \E i \in Inv : CheckError(i)
    \/ \E i \in Inv : LockTable(i)
    \/ \E i \in Inv : LockError(i)
    \/ \E i \in Inv : CommitInsert(i)
    \/ \E i \in Inv : CommitError(i)
    \/ \E i \in Inv, answered \in BOOLEAN : Resolve(i, answered)
    \/ \E i \in Inv, answered \in BOOLEAN : FetchToken(i, answered)
    \/ \E i \in Inv, resp \in Responses : HttpRequest(i, resp)
    \/ \E i \in Inv : HttpTransient(i)

Spec == Init /\ [][Next]_vars

----------------------------------------------------------------------------
(* Vocabulary of the properties *)

\* Invocation i was called with a well-formed message and got past the
\* ENABLED switch and the parsing.
Delivered(i) ==
    /\ pc[i] # "idle"
    /\ request[i].kind = "ok"
    /\ ENABLED_ENV \notin {"unset", "false", "False"}

Msg(i) == request[i].messageId

\* Invocation i inserted (and committed) a row.
Claimed(i) == ops[i].inserts > 0

ReportedAlreadyProcessed(i) == Finished(i) /\ result[i] = "AlreadyProcessed200"

\* The datastore failed under invocation i.
DatastoreFailed(i) == result[i] = "OperationalError"

\* Invocation j is a later delivery of i's message: it started after i had
\* finished.
LaterDelivery(i, j) ==
    /\ i # j
    /\ Delivered(i) /\ Delivered(j)
    /\ Msg(i) = Msg(j)
    /\ i \in before[j]

\* Invocation i ran with no other invocation in progress, for a message with
\* no row when it started.
AloneAndFirst(i) ==
    /\ Delivered(i)
    /\ overlap[i] = {}
    /\ ~seenAtStart[i]

PostsOf(i) == {k \in 1..Len(posts) : posts[k].by = i}
PostsFor(m) == {k \in 1..Len(posts) : posts[k].json = [conf |-> m]}
NoDownstream(i) ==
    ops[i].resolves = 0 /\ ops[i].tokens = 0 /\ ops[i].requests = 0 /\ PostsOf(i) = {}

----------------------------------------------------------------------------
(* Claims C1-C3: the claim protocol under concurrent deliveries *)

\* Invocations i and j were concurrent deliveries of one message that had no
\* row when either started, and both finished without a datastore failure.
ConcurrentSameMessage(i, j) ==
    /\ i # j
    /\ Delivered(i) /\ Delivered(j)
    /\ Msg(i) = Msg(j)
    /\ j \in overlap[i]
    /\ ~seenAtStart[i] /\ ~seenAtStart[j]
    /\ Finished(i) /\ Finished(j)
    /\ ~DatastoreFailed(i) /\ ~DatastoreFailed(j)

\* C1: of two concurrent invocations for the same message m, with no row for
\* m before, exactly one claims m (inserts a row) and the other reports
\* "already processed".
C1_ExactlyOneClaims ==
    \A i, j \in Inv :
        ConcurrentSameMessage(i, j) =>
            \/ Claimed(i) /\ ~Claimed(j) /\ ReportedAlreadyProcessed(j)
            \/ Claimed(j) /\ ~Claimed(i) /\ ReportedAlreadyProcessed(i)

\* C2: for every message identifier m, the downstream POST with conf = m is
\* sent at most once in total.
C2_PostAtMostOnce ==
    \A m \in MsgIds : Cardinality(PostsFor(m)) <= 1

\* C3: in every reachable state of pubsub_history, each message_id appears in
\* at most one committed row.
C3_UniqueMessageId ==
    \A m \in MsgIds : CountRows(table, m) <= 1

----------------------------------------------------------------------------
(* Claim C4: sequential deliveries *)

\* C4: for a message m with no prior row, of two invocations for m run one
\* after the other (the first with nothing else in progress, neither hit by
\* a datastore failure), the first claims m, and the second reports "already
\* processed" (status 200), attempts no lock and inserts no row.
C4_SequentialClaimThenAlready ==
    \A i \in Inv :
        (AloneAndFirst(i) /\ Finished(i) /\ ~DatastoreFailed(i)) =>
            /\ Claimed(i)
            /\ CountRows(table, Msg(i)) > 0
            /\ \A j \in Inv :
                 (LaterDelivery(i, j) /\ Finished(j) /\ ~DatastoreFailed(j)) =>
                     /\ ReportedAlreadyProcessed(j)
                     /\ ops[j].locks = 0
                     /\ ~Claimed(j)

C4_Witness ==
    \E i, j \in Inv :
        /\ AloneAndFirst(i) /\ Finished(i) /\ Claimed(i)
        /\ LaterDelivery(i, j) /\ ReportedAlreadyProcessed(j)
        /\ Len(table) = 1

----------------------------------------------------------------------------
(* Claims C5-C7: first delivery, then redelivery *)

\* Something the downstream call depends on (endpoint resolution, identity
\* token) raised under invocation i before the request was sent.
CollaboratorFailed(i) == result[i] \in {"ResolveError", "TokenError"}

\* Every delivery of i's message that started after i had finished, and ran
\* to its end without a datastore failure, reported "already processed" and
\* made no downstream call.
RedeliveriesAreNoOps(i) ==
    \A j \in Inv :
        (LaterDelivery(i, j) /\ Finished(j) /\ ~DatastoreFailed(j)) =>
            /\ ReportedAlreadyProcessed(j)
            /\ ~Claimed(j)
            /\ NoDownstream(j)

\* C5: a delivery of a not-yet-seen message m with matching attributes, with
\* no concurrent invocation (and no failure of the datastore or of the
\* collaborators), commits a row for m and sends exactly one POST, whose body
\* is {"conf": m}; every later redelivery of the same body reports already
\* processed and sends no POST.
C5_FirstDeliveryTriggersOnce ==
    \A i \in Inv :
        ( /\ AloneAndFirst(i) /\ Finished(i)
          /\ request[i].attributes = Matching
          /\ ~DatastoreFailed(i) /\ ~CollaboratorFailed(i) ) =>
            /\ Claimed(i)
            /\ CountRows(table, Msg(i)) = 1
            /\ Cardinality(PostsOf(i)) = 1
            /\ PostsFor(Msg(i)) = PostsOf(i)
            /\ \A j \in Inv :
                 (LaterDelivery(i, j) /\ request[j] = request[i]) =>
                     ((Finished(j) /\ ~DatastoreFailed(j)) =>
                         ReportedAlreadyProcessed(j)) /\ NoDownstream(j)

C5_Witness ==
    \E i, j \in Inv :
        /\ AloneAndFirst(i) /\ Finished(i) /\ Claimed(i)
        /\ request[i].attributes = Matching
        /\ Cardinality(PostsOf(i)) = 1
        /\ LaterDelivery(i, j) /\ request[j] = request[i]
        /\ ReportedAlreadyProcessed(j)

\* The downstream request of invocation i was sent and did not come back
\* with status 200.
DownstreamFailed(i) ==
    \E k \in PostsOf(i) : posts[k].status # 200

\* C6: if the downstream call of an invocation that claimed m fails, the
\* invocation ends in error (Forbidden for status 403), the row for m stays
\* committed, and every later redelivery of m reports "already processed"
\* without a downstream call.
C6_DownstreamFailureKeepsClaim ==
    \A i \in Inv :
        (Delivered(i) /\ Claimed(i) /\ DownstreamFailed(i)) =>
            /\ Finished(i)
            /\ result[i] \in {"Forbidden", "BadResponse", "Transient"}
            /\ \A k \in PostsOf(i) : posts[k].status = 403 => result[i] = "Forbidden"
            /\ CountRows(table, Msg(i)) > 0
            /\ RedeliveriesAreNoOps(i)

C6_Witness ==
    \E i, j \in Inv :
        /\ Claimed(i) /\ result[i] = "Forbidden"
        /\ \E k \in PostsOf(i) : posts[k].status = 403
        /\ LaterDelivery(i, j) /\ ReportedAlreadyProcessed(j)
        /\ CountRows(table, Msg(i)) = 1

\* C7: when the first delivery of m carries attributes that do not satisfy
\* the predicate, the invocation (alone, no datastore failure) commits a row
\* for m and completes without any downstream call; whenever such a delivery
\* has claimed m, a later delivery of m with matching attributes is still
\* treated as already processed and makes no downstream call.
C7_FilteredOutStillClaims ==
    \A i \in Inv :
        (Delivered(i) /\ request[i].attributes # Matching) =>
            /\ (AloneAndFirst(i) /\ Finished(i) /\ ~DatastoreFailed(i)) => Claimed(i)
            /\ Claimed(i) =>
                 /\ Finished(i) /\ result[i] = "ReturnedNone"
                 /\ NoDownstream(i)
                 /\ CountRows(table, Msg(i)) > 0
                 /\ \A j \in Inv :
                      (LaterDelivery(i, j) /\ request[j].attributes = Matching
                         /\ Finished(j) /\ ~DatastoreFailed(j)) =>
                          ReportedAlreadyProcessed(j) /\ NoDownstream(j)

C7_Witness ==
    \E i, j \in Inv :
        /\ AloneAndFirst(i) /\ Claimed(i) /\ request[i].attributes = NotCompleted
        /\ result[i] = "ReturnedNone"
        /\ LaterDelivery(i, j) /\ request[j].attributes = Matching
        /\ ReportedAlreadyProcessed(j) /\ posts = << >>

----------------------------------------------------------------------------
(* Claims C8, C9: rejected requests *)

\* C8: a payload that is malformed or lacks the message identifier
\* (including a 'message' object without 'messageId') is rejected with the
\* "Malformed Event Notification" response, with no datastore read or write
\* and no downstream call.
C8_MalformedRejected ==
    \A i \in Inv :
        (Finished(i) /\ request[i] \in BadBodies /\ ENABLED_ENV = "true") =>
            /\ result[i] = "Malformed500"
            /\ ops[i] = NoOps

\* C9: when ENABLED is "false", every invocation returns 418 and leaves the
\* dedup table and the downstream untouched: no existence check, no lock, no
\* insert, no downstream call, for any body.
C9_DisabledTouchesNothing ==
    ENABLED_ENV = "false" =>
        /\ table = << >> /\ posts = << >> /\ xlock = 0 /\ slock = {}
        /\ \A i \in Inv :
             /\ pc[i] \in {"idle", "done"}
             /\ Finished(i) => result[i] = "Disabled418"
             /\ ops[i] = NoOps

C9_Witness ==
    /\ ENABLED_ENV = "false"
    /\ \E i, j \in Inv :
         /\ Finished(i) /\ request[i] \in GoodBodies /\ result[i] = "Disabled418"
         /\ Finished(j) /\ request[j] \in BadBodies /\ result[j] = "Disabled418"

----------------------------------------------------------------------------
(* Claim C10: concurrent deliveries of different messages *)

\* C10: when two invocations claim different, not-yet-seen identifiers
\* concurrently, both end with a committed row for their own identifier.
C10_DifferentMessagesBothInsert ==
    \A i, j \in Inv :
        ( /\ i # j
          /\ Delivered(i) /\ Delivered(j)
          /\ Msg(i) # Msg(j)
          /\ j \in overlap[i]
          /\ ~seenAtStart[i] /\ ~seenAtStart[j]
          /\ Finished(i) /\ Finished(j)
          /\ ~DatastoreFailed(i) /\ ~DatastoreFailed(j) ) =>
            /\ Claimed(i) /\ CountRows(table, Msg(i)) > 0
            /\ Claimed(j) /\ CountRows(table, Msg(j)) > 0

----------------------------------------------------------------------------
(* Claim C11: what an invocation answers *)

\* The results that are exceptions leaving trigger_dag.
Raised == {"AttributeError", "KeyError", "OperationalError", "ResolveError",
           "TokenError", "Forbidden", "BadResponse", "Transient"}

\* C11: every invocation that newly claims its message and finishes without
\* error (filtered out, or downstream call answered 200) returns a response
\* with status 200; the only responses are 200, 500 (malformed) and 418
\* (disabled).
C11_ClaimAnswers200 ==
    \A i \in Inv :
        (Finished(i) /\ result[i] \notin Raised) =>
            /\ result[i] \in {"AlreadyProcessed200", "Processed200",
                              "Malformed500", "Disabled418"}
            /\ Claimed(i) => result[i] = "Processed200"

----------------------------------------------------------------------------
(* Claims C12, C13: the existence check and the rows *)

\* A committed row for m exists.
RowExists(m) == \E k \in 1..Len(table) : table[k].message_id = m

\* C12: message_id_exists(m) returns false in every state with no committed
\* row for m and true in every state with one, and no step of the check
\* changes the table.
C12_ExistenceCheckIsExact ==
    [][\A i \in Inv :
          /\ (pc[i] = "check" /\ pc'[i] = "check_commit") =>
                 count_gt0'[i] = RowExists(Msg(i))
          /\ (pc[i] \in {"check", "check_commit"} /\ pc'[i] # pc[i]) =>
                 table' = table]_vars

C12_Witness ==
    \E i, j \in Inv :
        /\ pc[i] = "check_commit" /\ count_gt0[i] /\ RowExists(Msg(i))
        /\ pc[j] = "done" /\ Claimed(j) /\ ops[j].checks = 1 /\ ~seenAtStart[j]

\* The committed rows, as a set.
Rows(t) == {t[k] : k \in 1..Len(t)}

\* C13: the committed rows only grow: no step updates or deletes a committed
\* row, so an identifier once claimed stays claimed.
C13_RowsOnlyGrow ==
    [][/\ Rows(table) \subseteq Rows(table')
       /\ Len(table) <= Len(table')
       /\ \A k \in 1..Len(table) : table'[k] = table[k]]_vars

C13_Witness ==
    \E i, j \in Inv :
        /\ Claimed(i) /\ result[i] = "Forbidden" /\ RowExists(Msg(i))
        /\ LaterDelivery(i, j) /\ result[j] = "OperationalError"

----------------------------------------------------------------------------
(* Claim C14: make_iap_request's classification *)

\* C14: make_iap_request classifies the answer by its status alone: 200
\* returns the response body, 403 raises the permission error, every other
\* status raises the bad-response error carrying status code, headers and
\* body; only status 200 yields a normal return.
C14_ClassifiedByStatus ==
    /\ \A k \in 1..Len(posts) :
         LET answer == posts[k]
             outcome == iap[answer.by]
         IN  answer.status # NoStatus =>
               /\ answer.status = 200 =>
                    outcome.kind = "return" /\ outcome.text = answer.text
               /\ answer.status = 403 => outcome.kind = "Forbidden"
               /\ answer.status \notin {200, 403} =>
                    /\ outcome.kind = "BadResponse"
                    /\ outcome.status_code = answer.status
                    /\ outcome.headers = answer.headers
                    /\ outcome.text = answer.text
    /\ \A i \in Inv :
         iap[i].kind = "return" => \E k \in PostsOf(i) : posts[k].status = 200

C14_Witness ==
    \E i, j \in Inv :
        /\ iap[i].kind = "BadResponse" /\ iap[i].status_code = 204
        /\ iap[j].kind = "return" /\ iap[j].text = "body-b"

----------------------------------------------------------------------------
(* Claims C15, C16: failures of the lock and of the datastore *)

\* Another transaction holds a lock on the table.
OtherHoldsLock(i) == \E j \in Inv \ {i} : xlock = j \/ j \in slock

\* C15: when the table lock cannot be acquired immediately
\* (lock_not_available), the invocation does not wait for it: the lock step
\* can always be taken, and taken while another transaction holds a lock
\* (and not failing otherwise) it ends the invocation with the "already
\* processed" answer, status 200, no row inserted, no lock taken and no
\* downstream call.
C15_LockNotAvailableIsAlreadyProcessed ==
    /\ [](\A i \in Inv : pc[i] = "lock" => ENABLED LockTable(i))
    /\ [][\A i \in Inv :
            ( /\ pc[i] = "lock" /\ pc'[i] # "lock"
              /\ OtherHoldsLock(i)
              /\ result'[i] # "OperationalError" ) =>
                /\ pc'[i] = "done"
                /\ result'[i] = "AlreadyProcessed200"
                /\ table' = table /\ posts' = posts
                /\ xlock' = xlock /\ slock' = slock
                /\ ops'[i].locks = 1 /\ ops'[i].inserts = 0
                /\ ops'[i].resolves = 0 /\ ops'[i].tokens = 0
                /\ ops'[i].requests = 0]_vars

C15_Witness ==
    \E i, j \in Inv :
        /\ ReportedAlreadyProcessed(i) /\ ops[i].locks = 1 /\ ~Claimed(i)
        /\ ~RowExists(Msg(i))
        /\ pc[j] = "commit" /\ xlock = j

\* C16: a datastore failure during the existence check or during lock
\* acquisition, other than lock-not-available, aborts the invocation with an
\* error: it is reported neither as "already processed" nor as a claim, no
\* row is committed and no downstream call is made.
C16_DatastoreFailureAborts ==
    /\ [][\A i \in Inv :
            (CheckError(i) \/ LockError(i)) =>
                /\ pc'[i] = "done"
                /\ result'[i] \in Raised
                /\ table' = table /\ posts' = posts
                /\ xlock' # i /\ i \notin slock'
                /\ ops'[i].inserts = 0
                /\ ops'[i].resolves = 0 /\ ops'[i].tokens = 0
                /\ ops'[i].requests = 0]_vars
    /\ [](\A i \in Inv :
            (Finished(i) /\ ops[i].inserts = 0 /\ result[i] \in Raised) =>
                NoDownstream(i) /\ \A k \in 1..Len(posts) : posts[k].by # i)

C16_Witness ==
    \E i, j \in Inv :
        /\ result[i] = "OperationalError" /\ ops[i].locks = 1
        /\ result[j] = "OperationalError" /\ ops[j].locks = 0 /\ ops[j].checks = 1
        /\ table = << >>

----------------------------------------------------------------------------
(* Claims C17, C18: order of commit, lock and downstream call *)

\* Invocation i is in its downstream stage: resolving the endpoint, fetching
\* the token or sending the request.
InDownstream(i) == pc[i] \in {"resolve", "token", "http"}

\* C17: a POST with conf = m is sent only by an invocation that has itself
\* committed a row for m, and only after that commit: whenever a downstream
\* call for m is in progress or done, a committed row for m exists.
C17_PostOnlyAfterCommit ==
    /\ \A i \in Inv :
         (InDownstream(i) \/ PostsOf(i) # {} \/ ops[i].resolves > 0) =>
             Claimed(i) /\ RowExists(Msg(i))
    /\ \A k \in 1..Len(posts) :
         /\ posts[k].json = [conf |-> Msg(posts[k].by)]
         /\ RowExists(posts[k].json.conf)

C17_Witness ==
    \E i, j \in Inv :
        /\ pc[i] = "http" /\ RowExists(Msg(i))
        /\ PostsOf(j) # {} /\ Msg(j) # Msg(i) /\ RowExists(Msg(j))

\* C18: the exclusive table lock is held only between a successful LOCK TABLE
\* and the commit of the insert: no invocation holds a lock on the table in
\* its downstream stage or after it has returned, so an invocation that finds
\* the lock unavailable finds it held by one that is between its LOCK TABLE
\* and its commit (or inside its existence check), never by one that is
\* calling downstream.
C18_LockOnlyUntilCommit ==
    /\ \A i \in Inv :
         /\ xlock = i => pc[i] = "commit"
         /\ i \in slock => pc[i] = "check_commit"
         /\ (InDownstream(i) \/ Finished(i)) => (xlock # i /\ i \notin slock)
    /\ \A j \in Inv :
         (pc[j] = "lock" /\ OtherHoldsLock(j)) =>
             \E i \in Inv \ {j} : pc[i] \in {"commit", "check_commit"}

C18_Witness ==
    \E i, j \in Inv :
        /\ pc[i] = "http"
        /\ pc[j] = "commit" /\ xlock = j /\ ops[j].locks = 1

----------------------------------------------------------------------------
(* Claim C19: no internal retry, a fresh token per request *)

\* C19: an invocation makes at most one lock attempt, at most one insert and
\* at most one downstream HTTP request; each request is preceded by exactly
\* one identity-token fetch made by the same invocation and carries that
\* token, and no token is used by two requests.
C19_NoRetryFreshToken ==
    /\ \A i \in Inv :
         /\ ops[i].checks <= 1 /\ ops[i].locks <= 1 /\ ops[i].inserts <= 1
         /\ ops[i].resolves <= 1 /\ ops[i].tokens <= 1 /\ ops[i].requests <= 1
         /\ Cardinality(PostsOf(i)) = ops[i].requests
         /\ (pc[i] = "http" \/ ops[i].requests = 1) =>
                ops[i].tokens = 1 /\ token[i] # NoToken
    /\ \A k \in 1..Len(posts) :
         /\ posts[k].bearer # NoToken
         /\ posts[k].bearer = token[posts[k].by]
         /\ \A l \in 1..Len(posts) : posts[l].bearer = posts[k].bearer => l = k
    /\ \A i, j \in Inv : (token[i] # NoToken /\ token[i] = token[j]) => i = j

C19_Witness ==
    \E i, j \in Inv :
        /\ i # j
        /\ PostsOf(i) # {} /\ PostsOf(j) # {}
        /\ Msg(i) = Msg(j)
        /\ ops[i].locks = 1 /\ ops[j].locks = 1

----------------------------------------------------------------------------
(* Claim C20: termination *)

\* The steps of invocation i that the function takes when nothing fails:
\* the runtime keeps running it, the database answers, and the downstream
\* answers or times out.
Progress(i) ==
    \/ CheckQuery(i)
    \/ CheckCommit(i)
    \/ LockTable(i)
    \/ CommitInsert(i)
    \/ \E answered \in BOOLEAN : Resolve(i, answered)
    \/ \E answered \in BOOLEAN : FetchToken(i, answered)
    \/ \E resp \in Responses : HttpRequest(i, resp)
    \/ HttpTransient(i)

\* Fair scheduling of the invocations.
FairSpec == Spec /\ \A i \in Inv : WF_vars(Progress(i))

\* C20: under fair scheduling and a downstream that always answers or times
\* out, every invocation eventually terminates (returns or raises): the
\* existence check may wait for a lock holder, but a lock holder can always
\* commit and a checker can always leave its check, whatever the others do.
C20_EveryInvocationTerminates ==
    /\ \A i \in Inv : (pc[i] # "idle") ~> Finished(i)
    /\ [](\A i \in Inv :
            /\ xlock = i => ENABLED CommitInsert(i)
            /\ i \in slock => ENABLED CheckCommit(i)
            /\ pc[i] = "lock" => ENABLED LockTable(i))

C20_Witness ==
    \E i, j \in Inv :
        /\ i # j
        /\ pc[i] = "check" /\ ~ENABLED CheckQuery(i)
        /\ xlock = j /\ pc[j] = "commit"

====
